---- MODULE Spec2Model ----
(***************************************************************************)
(* TypeScriptServiceClientHost (src/server/typescriptServiceClientHost.ts) *)
(* as a state machine: the language-provider registry, the debounced       *)
(* project-change timer, the routing of diagnostic batches across the      *)
(* asynchronous findLanguage suspension, and the severity classifier.      *)
(*                                                                         *)
(* Timers are ideal: a timeout callback runs as soon as its delay has      *)
(* elapsed, before any later event is dispatched (NoTimerDue).             *)
(***************************************************************************)
EXTENDS Integers, Sequences, FiniteSets, TLC

\* ---------------------------------------------------------------- bounds
MaxTime == 3750
Quantum == 750
MaxChanges == 3
MaxStructural == 1
MaxStarted == 1
MaxReady == 1
MaxBatches == 2
MaxConfigEvents == 1
MaxConfigDiags == 2
MaxPieces == 5

\* ------------------------------------------------------- program constants
DebounceDelay == 1500

None == "undefined"

\* an optional value: absent (undefined), or present
Absent == <<>>

Some(x) == << x >>

\* utils/errorCodes: the code sets the style-check set is built from
variableDeclaredButNeverUsed == {6196, 6133}
propertyDeclaretedButNeverUsed == {6138}
allImportsAreUnused == {6192}
unreachableCode == {7027}
unusedLabel == {7028}
fallThroughCaseInSwitch == {7029}
notAllCodePathsReturnAValue == {7030}

styleCheckDiagnostics ==
  variableDeclaredButNeverUsed \cup propertyDeclaretedButNeverUsed
    \cup allImportsAreUnused \cup unreachableCode \cup unusedLabel
    \cup fallThroughCaseInSwitch \cup notAllCodePathsReturnAValue

\* ------------------------------------------------------------------ inputs
\* constructor argument `descriptions` (ids of the primary languages)
DescriptionSets == { <<>>, <<"typescript">>, <<"typescript", "javascript">> }

\* constructor argument `pluginManager.plugins`
Plugin(ns, langs) == [configNamespace |-> ns, languages |-> langs]
PluginSets ==
  { <<>>,
    << Plugin("styled", <<"css">>) >>,
    << Plugin(None, <<"vue">>) >>,
    << Plugin("styled", <<"css">>), Plugin(None, <<"vue">>), Plugin("empty", <<>>) >>,
    << Plugin("typescript", <<"svelte">>) >> }

\* workspace configuration value tsserver.reportStyleChecksAsWarnings
ConfigValues == {None, "true", "false"}

VARIABLES
  descriptions,                \* constructor argument
  plugins,                     \* constructor argument
  languagePerId,               \* Map<string, LanguageProvider>, in insertion order
  nextInst,                    \* number of LanguageProvider objects created so far
  disposedLanguages,           \* LanguageProvider objects whose dispose() ran
  reportStyleCheckAsWarnings,  \* the classifier flag
  config,                      \* the workspace's stored configuration value
  disposed,                    \* dispose() has run (this.disposables are disposed)
  timer,                       \* handle held by the constructor's `timer` (0 = unset)
  pendingTimers,               \* timeouts the runtime still holds
  now,                         \* the clock, ms
  microtasks,                  \* suspended diagnosticsReceived calls, FIFO
  delivered,                   \* calls of LanguageProvider.diagnosticsReceived
  errors,                      \* console.error calls of the .catch handler
  escaped,                     \* an exception left the diagnostics event callback
  executed,                    \* commands sent with client.execute
  reInitialized,               \* calls of diagnosticsManager.reInitialize
  triggerLog,                  \* calls of this.triggerAllDiagnostics
  configFileDiags,             \* the last call of diagnosticsManager.configFileDiagnosticsReceived
  turn,                        \* the last file-watcher or trigger turn and what it did
  changeLog,                   \* times of the content-change events handled
  counts,                      \* how many events of each kind happened
  answers,                     \* what the collaborators answer in a lookup, per resource
  resumed,                     \* the diagnosticsReceived calls that ran to their end
  formatting                   \* a text that formatDiagnosticIntoMarkdown returned, and
                               \* what replaceBackticksExceptCodeBlocks made of it

vars == << descriptions, plugins, languagePerId, nextInst, disposedLanguages,
           reportStyleCheckAsWarnings, config, disposed, timer, pendingTimers,
           now, microtasks, delivered, errors, escaped, executed, reInitialized,
           triggerLog, configFileDiags, turn, changeLog, counts, answers, resumed,
           formatting >>

\* ----------------------------------------------------------------- helpers
Min(a, b) == IF a <= b THEN a ELSE b

SetMin(S) == CHOOSE x \in S : \A y \in S : x <= y

Range(s) == { s[i] : i \in 1..Len(s) }

\* new LanguageProvider(client, fileConfigurationManager, description, typingsStatus)
LanguageProvider(inst, id, source) == [inst |-> inst, id |-> id, source |-> source]

\* `undefined` where a LanguageProvider is expected
NoLanguage == LanguageProvider(0, None, None)

\* Map.prototype.set: an existing key keeps its position, a new key goes last
MapSet(map, lang) ==
  IF \E i \in 1..Len(map) : map[i].id = lang.id
  THEN [i \in 1..Len(map) |-> IF map[i].id = lang.id THEN lang ELSE map[i]]
  ELSE Append(map, lang)

\* config.get('reportStyleChecksAsWarnings', true)
ConfigGet(value) == IF value = None THEN TRUE ELSE value = "true"

\* the constructor's loop over descriptions
RECURSIVE RegisterDescriptions(_, _, _)
RegisterDescriptions(map, ds, inst) ==
  IF ds = <<>> THEN map
  ELSE RegisterDescriptions(MapSet(map, LanguageProvider(inst + 1, Head(ds), "tsserver")),
                            Tail(ds), inst + 1)

Turn(ev) == [ev |-> ev, at |-> now, registry |-> languagePerId,
             reload |-> FALSE, reinit |-> FALSE, triggered |-> FALSE]

NoTimerDue == \A t \in pendingTimers : t.due > now

Count(k) == counts[k]

Bump(k) == [counts EXCEPT ![k] = @ + 1]

EventKinds == {"change", "structural", "started", "ready", "batch", "config", "configDiag"}

\* ---------------------------------------------------------- text formatter
\* a text is a sequence of characters; the escape sequences the formatter writes,
\* and the word `typescript`, are kept as one element each
NUL == "NUL"

\* the character U+0060, which a string of this notation cannot hold
Backtick == "backtick"

Fence == << Backtick, Backtick, Backtick >>

Highlight == "ESC[1;34m"

Reset == "ESC[0m"

\* text.startsWith(w, i)
StartsWith(text, i, w) ==
  i + Len(w) - 1 <= Len(text) /\ SubSeq(text, i, i + Len(w) - 1) = w

\* text.indexOf(w, i), from 1; 0 when w does not occur
RECURSIVE IndexOf(_, _, _)
IndexOf(text, w, i) ==
  IF i + Len(w) - 1 > Len(text) THEN 0
  ELSE IF StartsWith(text, i, w) THEN i
  ELSE IndexOf(text, w, i + 1)

\* text.replace(codeBlockRegex, match => { codeBlocks.push(match); return "\0" }) with
\* /```[\s\S]*?```/g: the text with its placeholders, and codeBlocks
RECURSIVE ExtractCodeBlocks(_, _)
ExtractCodeBlocks(text, i) ==
  IF i > Len(text) THEN [text |-> <<>>, codeBlocks |-> <<>>]
  ELSE LET close == IF StartsWith(text, i, Fence) THEN IndexOf(text, Fence, i + 3) ELSE 0 IN
       IF close # 0
       THEN LET rest == ExtractCodeBlocks(text, close + 3) IN
            [text |-> << NUL >> \o rest.text,
             codeBlocks |-> << SubSeq(text, i, close + 2) >> \o rest.codeBlocks]
       ELSE LET rest == ExtractCodeBlocks(text, i + 1) IN
            [text |-> << text[i] >> \o rest.text, codeBlocks |-> rest.codeBlocks]

\* text.replace(/c/g, w) for a single character c
RECURSIVE ReplaceChar(_, _, _)
ReplaceChar(text, c, w) ==
  IF text = <<>> THEN <<>>
  ELSE (IF Head(text) = c THEN w ELSE << Head(text) >>) \o ReplaceChar(Tail(text), c, w)

\* text.replace(/`([^`]+)`/g, "\u001b[1;34m$1\u001b[0m")
RECURSIVE HighlightSpans(_, _)
HighlightSpans(text, i) ==
  IF i > Len(text) THEN <<>>
  ELSE LET close == IF text[i] = Backtick THEN IndexOf(text, << Backtick >>, i + 1) ELSE 0 IN
       IF close > i + 1
       THEN << Highlight >> \o SubSeq(text, i + 1, close - 1) \o << Reset >>
              \o HighlightSpans(text, close + 1)
       ELSE << text[i] >> \o HighlightSpans(text, i + 1)

\* replacedText.replace(/\0/g, () => codeBlocks.shift() || "")
RECURSIVE RestoreCodeBlocks(_, _)
RestoreCodeBlocks(text, codeBlocks) ==
  IF text = <<>> THEN <<>>
  ELSE IF Head(text) = NUL
       THEN IF codeBlocks = <<>> THEN RestoreCodeBlocks(Tail(text), codeBlocks)
            ELSE Head(codeBlocks) \o RestoreCodeBlocks(Tail(text), Tail(codeBlocks))
       ELSE << Head(text) >> \o RestoreCodeBlocks(Tail(text), codeBlocks)

\* replaceBackticksExceptCodeBlocks(text)
ReplaceBackticksExceptCodeBlocks(text) ==
  LET extracted == ExtractCodeBlocks(text, 1)
      replacedText ==
        HighlightSpans(ReplaceChar(ReplaceChar(extracted.text, "<", << "\\", "<" >>),
                                   ">", << "\\", ">" >>), 1)
  IN RestoreCodeBlocks(replacedText, extracted.codeBlocks)

\* the texts that formatDiagnosticIntoMarkdown may return are built from these pieces
Pieces == { << "a" >>, << "<" >>, << ">" >>, << Backtick >>, << Backtick, "a", Backtick >>, Fence, << NUL >> }

RECURSIVE TextsOf(_)
TextsOf(n) ==
  IF n = 0 THEN { <<>> }
  ELSE TextsOf(n - 1) \cup { t \o p : t \in TextsOf(n - 1), p \in Pieces }

Texts == TextsOf(MaxPieces)

\* -------------------------------------------------------------------- Init
Resources == {"a.ts", "b.vue"}

\* the ids that the constructor and the onReady callback register
IdsOf(ds, ps) ==
  Range(ds)
    \cup { ps[k].configNamespace : k \in { j \in 1..Len(ps) :
             ps[j].configNamespace # None /\ Len(ps[j].languages) # 0 } }
    \cup (IF \E k \in 1..Len(ps) :
               /\ ~(ps[k].configNamespace # None /\ Len(ps[k].languages) # 0)
               /\ Len(ps[k].languages) # 0
          THEN {"typescript-plugins"} ELSE {})

\* what the collaborators answer during a lookup of one resource: whether
\* client.getDocument(uri) returns a document, which handlers' handles / handlesUri
\* are true, and the call that throws (getDocument, Uri.parse, or the predicate of
\* one handler); the predicate that the lookup does not consult answers the same
\* for every handler
Lookups(ids) ==
  { l \in [tracked : BOOLEAN, fail : {None, "getDocument", "Uri.parse"} \cup ids,
           handles : SUBSET ids, handlesUri : SUBSET ids] :
      IF l.tracked THEN l.handlesUri \in {{}, ids} ELSE l.handles \in {{}, ids} }

\* the lookup of a file that is not open and that no handler claims
Unclaimed == [tracked |-> FALSE, fail |-> None, handles |-> {}, handlesUri |-> {}]

ClaimedAnswers(ids) ==
  { [r \in Resources |-> [tracked |-> TRUE, fail |-> None, handles |-> {"typescript"} \cap ids,
                          handlesUri |-> {}]] }

\* every answer for a.ts, b.vue unclaimed
AllAnswers(ids) ==
  { [r \in Resources |-> IF r = "a.ts" THEN a ELSE Unclaimed] : a \in Lookups(ids) }

NoAnswers(ids) == { [r \in Resources |-> Unclaimed] }

\* the lookup answers of a run, by the name of their set
Answers(which, ids) ==
  CASE which = "all" -> AllAnswers(ids)
    [] which = "claimed" -> ClaimedAnswers(ids)
    [] OTHER -> NoAnswers(ids)

\* the state after the constructor, for the given sets of inputs and of texts
ConstructWith(D, P, C, which, T) ==
  /\ formatting \in { [markdown |-> t, replaced |-> Absent] : t \in T }
  /\ descriptions \in D
  /\ plugins \in P
  /\ config \in C
  /\ answers \in Answers(which, IdsOf(descriptions, plugins))
  /\ languagePerId = RegisterDescriptions(<<>>, descriptions, 0)
  /\ nextInst = Len(descriptions)
  /\ disposedLanguages = {}
  /\ reportStyleCheckAsWarnings = ConfigGet(config)
  /\ disposed = FALSE
  /\ timer = 0
  /\ pendingTimers = {}
  /\ now = 0
  /\ microtasks = <<>>
  /\ delivered = <<>>
  /\ errors = <<>>
  /\ escaped = FALSE
  /\ executed = <<>>
  /\ reInitialized = 0
  /\ triggerLog = <<>>
  /\ configFileDiags = [uri |-> << >>, raw |-> <<>>, flag |-> TRUE, diagnostics |-> <<>>]
  /\ turn = Turn(<<"constructor">>)
  /\ changeLog = <<>>
  /\ counts = [k \in EventKinds |-> 0]
  /\ resumed = <<>>

\* the state after the constructor, no text at hand
Construct(D, P, C, which) == ConstructWith(D, P, C, which, { <<>> })

Init == ConstructWith(DescriptionSets, PluginSets, ConfigValues, "all", Texts)

\* ----------------------------------------------------- debounce and reload
\* triggerAllDiagnostics(): one language.triggerAllDiagnostics() per registry entry
TriggerAllDiagnostics(origin) ==
  Append(triggerLog, [origin |-> origin, at |-> now, languages |-> languagePerId])

\* handleProjectChange without its clearTimeout
ClearTimeoutSkipped(handle) == pendingTimers

\* clearTimeout(timer), guarded by `if (timer)`
ClearTimeout(handle) ==
  IF handle # 0 THEN { t \in pendingTimers : t.id # handle } ELSE pendingTimers

\* handleProjectChange: onDidChange of **/[tj]sconfig.json and of **/package.json
HandleProjectChange(file) ==
  /\ ~disposed
  /\ NoTimerDue
  /\ Count("change") < MaxChanges
  /\ pendingTimers' = ClearTimeout(timer) \cup {[id |-> timer + 1, due |-> now + DebounceDelay]}
  /\ timer' = timer + 1
  /\ changeLog' = Append(changeLog, now)
  /\ turn' = Turn(<<"change", file>>)
  /\ counts' = Bump("change")
  /\ UNCHANGED << answers, formatting, resumed, descriptions, plugins, languagePerId, nextInst, disposedLanguages,
                  reportStyleCheckAsWarnings, config, disposed, now, microtasks,
                  delivered, errors, escaped, executed, reInitialized, triggerLog,
                  configFileDiags >>

\* the setTimeout callback
TimerFires ==
  /\ \E t \in pendingTimers :
       /\ t.due <= now
       /\ pendingTimers' = pendingTimers \ {t}
  /\ triggerLog' = TriggerAllDiagnostics("timer")
  /\ turn' = [Turn(<<"timer">>) EXCEPT !.triggered = TRUE]
  /\ UNCHANGED << answers, formatting, resumed, descriptions, plugins, languagePerId, nextInst, disposedLanguages,
                  reportStyleCheckAsWarnings, config, disposed, timer, now,
                  microtasks, delivered, errors, escaped, executed, reInitialized,
                  configFileDiags, changeLog, counts >>

\* the file watchers' listeners: which (file, event) pairs call reloadProjects
ReloadListeners == { <<"tsconfig", "create">>, <<"tsconfig", "delete">>,
                     <<"package", "create">> }

StructuralEvents == { <<"tsconfig", "create">>, <<"tsconfig", "delete">>,
                      <<"package", "create">>, <<"package", "delete">> }

\* a create or delete event of a watched file; reloadProjects() when a listener is registered
StructuralEvent(e) ==
  /\ ~disposed
  /\ NoTimerDue
  /\ Count("structural") < MaxStructural
  /\ counts' = Bump("structural")
  /\ IF e \in ReloadListeners
     THEN /\ reInitialized' = reInitialized + 1
          /\ executed' = Append(executed, "reloadProjects")
          /\ triggerLog' = TriggerAllDiagnostics("reload")
          /\ turn' = [Turn(e) EXCEPT !.reload = TRUE, !.reinit = TRUE, !.triggered = TRUE]
     ELSE /\ turn' = Turn(e)
          /\ UNCHANGED << reInitialized, executed, triggerLog >>
  /\ UNCHANGED << answers, formatting, resumed, descriptions, plugins, languagePerId, nextInst, disposedLanguages,
                  reportStyleCheckAsWarnings, config, disposed, timer, pendingTimers,
                  now, microtasks, delivered, errors, escaped, configFileDiags,
                  changeLog >>

\* client.onTsServerStarted(() => this.triggerAllDiagnostics())
TsServerStarted ==
  /\ ~disposed
  /\ NoTimerDue
  /\ Count("started") < MaxStarted
  /\ counts' = Bump("started")
  /\ triggerLog' = TriggerAllDiagnostics("started")
  /\ turn' = [Turn(<<"started">>) EXCEPT !.triggered = TRUE]
  /\ UNCHANGED << answers, formatting, resumed, descriptions, plugins, languagePerId, nextInst, disposedLanguages,
                  reportStyleCheckAsWarnings, config, disposed, timer, pendingTimers,
                  now, microtasks, delivered, errors, escaped, executed, reInitialized,
                  configFileDiags, changeLog >>

\* time passes while no timeout is due
Tick ==
  /\ NoTimerDue
  /\ now < MaxTime
  /\ now' = IF pendingTimers = {} THEN now + Quantum
            ELSE Min(now + Quantum, SetMin({ t.due : t \in pendingTimers }))
  /\ UNCHANGED << answers, formatting, resumed, descriptions, plugins, languagePerId, nextInst, disposedLanguages,
                  reportStyleCheckAsWarnings, config, disposed, timer, pendingTimers,
                  microtasks, delivered, errors, escaped, executed, reInitialized,
                  triggerLog, configFileDiags, turn, changeLog, counts >>

\* ---------------------------------------------------- handler registration
\* registerExtensionLanguageProvider(description)
RegisterExtensionLanguageProvider(map, inst, id) ==
  MapSet(map, LanguageProvider(inst, id, "ts-plugin"))

\* the onReady loop over pluginManager.plugins: << registry, languageIds, objects created >>
RECURSIVE RegisterPlugins(_, _, _, _)
RegisterPlugins(map, ps, languageIds, inst) ==
  IF ps = <<>> THEN << map, languageIds, inst >>
  ELSE LET plugin == Head(ps) IN
       IF plugin.configNamespace # None /\ Len(plugin.languages) # 0
       THEN RegisterPlugins(RegisterExtensionLanguageProvider(map, inst + 1, plugin.configNamespace),
                            Tail(ps), languageIds, inst + 1)
       ELSE RegisterPlugins(map, Tail(ps), languageIds \cup Range(plugin.languages), inst)

\* client.onReady(() => { ... })
OnReady ==
  /\ NoTimerDue
  /\ Count("ready") < MaxReady
  /\ counts' = Bump("ready")
  /\ LET r == RegisterPlugins(languagePerId, plugins, {}, nextInst) IN
       IF r[2] # {}
       THEN /\ languagePerId' = RegisterExtensionLanguageProvider(r[1], r[3] + 1, "typescript-plugins")
            /\ nextInst' = r[3] + 1
       ELSE /\ languagePerId' = r[1]
            /\ nextInst' = r[3]
  /\ UNCHANGED << turn, answers, formatting, resumed, descriptions, plugins, disposedLanguages, reportStyleCheckAsWarnings,
                  config, disposed, timer, pendingTimers, now, microtasks, delivered,
                  errors, escaped, executed, reInitialized, triggerLog, configFileDiags,
                  changeLog >>

\* dispose()
Dispose ==
  /\ NoTimerDue
  /\ ~disposed
  /\ disposed' = TRUE
  /\ disposedLanguages' = disposedLanguages \cup { l.inst : l \in Range(languagePerId) }
  /\ languagePerId' = <<>>
  /\ UNCHANGED << turn, answers, formatting, resumed, descriptions, plugins, nextInst, reportStyleCheckAsWarnings, config,
                  timer, pendingTimers, now, microtasks, delivered, errors, escaped,
                  executed, reInitialized, triggerLog, configFileDiags, changeLog, counts >>

\* ------------------------------------------------------------ configuration
\* configurationChanged(e) that never reads the section again
ConfigurationChangedFlagStale(affects, stored) == reportStyleCheckAsWarnings

\* configurationChanged(e): the flag it leaves, given e.affectsConfiguration('tsserver')
\* and the stored value of the section
ConfigurationChangedFlag(affects, stored) ==
  IF affects THEN ConfigGet(stored) ELSE reportStyleCheckAsWarnings

\* the workspace.onDidChangeConfiguration listener; an event that affects 'tsserver'
\* is the one that carries a new value of the section
ConfigurationChanged(affects, value) ==
  /\ NoTimerDue
  /\ ~disposed
  /\ Count("config") < MaxConfigEvents
  /\ counts' = Bump("config")
  /\ config' = IF affects THEN value ELSE config
  /\ reportStyleCheckAsWarnings' = ConfigurationChangedFlag(affects, config')
  /\ UNCHANGED << turn, answers, formatting, resumed, descriptions, plugins, languagePerId, nextInst, disposedLanguages,
                  disposed, timer, pendingTimers, now, microtasks, delivered, errors,
                  escaped, executed, reInitialized, triggerLog, configFileDiags, changeLog >>

\* ---------------------------------------------------------------- severity
Code(t, v) == [type |-> t, value |-> v]

NoCode == Code("undefined", 0)

\* isStyleCheckDiagnostic(code)
IsStyleCheckDiagnostic(code) ==
  code.type = "number" /\ code.value \in styleCheckDiagnostics

\* getDiagnosticSeverity without the test of the category in the downgrade
GetDiagnosticSeverityAnyCategory(diagnostic, flag) ==
  IF flag /\ IsStyleCheckDiagnostic(diagnostic.code)
  THEN "Warning"
  ELSE CASE diagnostic.category = "error" -> "Error"
         [] diagnostic.category = "warning" -> "Warning"
         [] diagnostic.category = "suggestion" -> "Hint"
         [] OTHER -> "Error"

\* getDiagnosticSeverity with another default of the switch
GetDiagnosticSeverityDefaultInformation(diagnostic, flag) ==
  IF flag /\ IsStyleCheckDiagnostic(diagnostic.code) /\ diagnostic.category = "error"
  THEN "Warning"
  ELSE CASE diagnostic.category = "error" -> "Error"
         [] diagnostic.category = "warning" -> "Warning"
         [] diagnostic.category = "suggestion" -> "Hint"
         [] OTHER -> "Information"

\* getDiagnosticSeverity(diagnostic), reading this.reportStyleCheckAsWarnings
GetDiagnosticSeverity(diagnostic, flag) ==
  IF flag /\ IsStyleCheckDiagnostic(diagnostic.code) /\ diagnostic.category = "error"
  THEN "Warning"
  ELSE CASE diagnostic.category = "error" -> "Error"
         [] diagnostic.category = "warning" -> "Warning"
         [] diagnostic.category = "suggestion" -> "Hint"
         [] OTHER -> "Error"

\* ----------------------------------------------------------- normalization
Location(line, offset) == Some([line |-> line, offset |-> offset])

RawDiagnostic(start, end, text, category, code, unnecessary, deprecated, related) ==
  [start |-> start, end |-> end, text |-> text, category |-> category, code |-> code,
   reportsUnnecessary |-> unnecessary, reportsDeprecated |-> deprecated,
   source |-> None, relatedInformation |-> related]

\* typeConverters.Position.fromLocation of a location that is present
PositionFromLocation(loc) == [line |-> loc[1].line - 1, character |-> loc[1].offset - 1]

\* Range.create(start.line - 1, start.offset - 1, end.line - 1, end.offset - 1)
RangeCreate(sl, sc, el, ec) ==
  [start |-> [line |-> sl, character |-> sc], end |-> [line |-> el, character |-> ec]]

Returned(v) == [threw |-> FALSE, value |-> v]

Thrown == [threw |-> TRUE]

\* the tags without `tags.length ? tags : undefined`
DiagnosticTagsEmptyKept(diagnostic) ==
  Some((IF diagnostic.reportsUnnecessary THEN <<"Unnecessary">> ELSE <<>>)
       \o (IF diagnostic.reportsDeprecated THEN <<"Deprecated">> ELSE <<>>))

\* the tags of tsDiagnosticToLspDiagnostic
DiagnosticTags(diagnostic) ==
  LET tags == (IF diagnostic.reportsUnnecessary THEN <<"Unnecessary">> ELSE <<>>)
              \o (IF diagnostic.reportsDeprecated THEN <<"Deprecated">> ELSE <<>>)
  IN IF Len(tags) # 0 THEN Some(tags) ELSE Absent

\* diagnostic.code ? diagnostic.code : null
DiagnosticCode(code) ==
  IF code.type = "undefined" \/ (code.type = "number" /\ code.value = 0)
  THEN Code("null", 0) ELSE code

\* the relatedInformation.map callback: reading span.file of an absent span throws
RelatedInformation(related) ==
  IF related = Absent THEN Returned(Absent)
  ELSE LET infos == related[1] IN
       IF \E k \in 1..Len(infos) : infos[k].span = Absent THEN Thrown
       ELSE Returned(Some([k \in 1..Len(infos) |->
              [location |-> [uri |-> << "file://", infos[k].span[1].file >>,
                             range |-> [start |-> PositionFromLocation(infos[k].span[1].start),
                                        end |-> PositionFromLocation(infos[k].span[1].end)]],
               message |-> infos[k].message]]))

\* typeConverters.Position.fromLocation reads tslocation.line and tslocation.offset
\* with no test of its argument: a TypeError when the location is undefined
FromLocationThrows(loc) == loc = Absent

\* tsDiagnosticToLspDiagnostic(diagnostic)
TsDiagnosticToLspDiagnostic(diagnostic, flag) ==
  LET related == RelatedInformation(diagnostic.relatedInformation) IN
  IF FromLocationThrows(diagnostic.start) \/ FromLocationThrows(diagnostic.end) THEN Thrown
  ELSE IF related.threw THEN Thrown
  ELSE Returned(
         [range |-> [start |-> PositionFromLocation(diagnostic.start),
                     end |-> PositionFromLocation(diagnostic.end)],
          tags |-> DiagnosticTags(diagnostic),
          message |-> diagnostic.text,
          code |-> DiagnosticCode(diagnostic.code),
          severity |-> GetDiagnosticSeverity(diagnostic, flag),
          reportDeprecated |-> diagnostic.reportsDeprecated,
          reportUnnecessary |-> diagnostic.reportsUnnecessary,
          source |-> diagnostic.source,
          relatedInformation |-> related.value])

\* renderType[diagnostic.severity || DiagnosticSeverity.Error]
RenderType(severity) ==
  CASE severity = "Error" -> "ESC[1;31m"
    [] severity = "Warning" -> "ESC[1;32m"
    [] OTHER -> "ESC[1;36m"

\* formatDiagnosticIntoMarkdown(diagnostic) of pretty-ts-errors-markdown, a black box:
\* a text whose first line is a marker of three characters and the message
FormatDiagnosticIntoMarkdown(diagnostic) == << "#", "#", " ", diagnostic.message >>

\* text.split("\n")
RECURSIVE Split(_)
Split(text) ==
  LET newline == IndexOf(text, << "\n" >>, 1) IN
  IF newline = 0 THEN << text >>
  ELSE << SubSeq(text, 1, newline - 1) >> \o Split(SubSeq(text, newline + 1, Len(text)))

\* lines.join("\n")
RECURSIVE Join(_)
Join(lines) ==
  IF Len(lines) = 1 THEN lines[1] ELSE lines[1] \o << "\n" >> \o Join(Tail(lines))

\* line.substring(3, line.length)
Substring3(line) == IF Len(line) <= 3 THEN <<>> ELSE SubSeq(line, 4, Len(line))

RECURSIVE LeadingSpaces(_)
LeadingSpaces(line) ==
  IF line # <<>> /\ Head(line) = " " THEN 1 + LeadingSpaces(Tail(line)) ELSE 0

\* line.replace(/(?<=(^\s*```))typescript/, "prettytserr")
FenceLanguage(line) ==
  LET at == LeadingSpaces(line) + 4 IN
  IF StartsWith(line, at - 3, Fence \o << "typescript" >>)
  THEN [line EXCEPT ![at] = "prettytserr"] ELSE line

\* the callback of .map((line, index) => ...) with showLink false and
\* codeBlockHighlightType "prettytserr"; the two substitutions of link markup match
\* only a line that holds a '[', which no text here does
FormatLine(line, index, severity) ==
  FenceLanguage(IF index = 0
                THEN << RenderType(severity) >> \o Substring3(line) \o << Reset >>
                ELSE line)

\* the text that format() makes of the markdown of one diagnostic
FormatText(markdown, severity) ==
  LET lines == Split(ReplaceBackticksExceptCodeBlocks(markdown)) IN
  Join([i \in 1..Len(lines) |-> FormatLine(lines[i], i - 1, severity)])

\* format() with the line `source: NAMESPACE` in force
FormatDiagnosticWithNamespace(ds) ==
  [k \in 1..Len(ds) |->
     [range |-> ds[k].range, tags |-> ds[k].tags, code |-> ds[k].code,
      severity |-> ds[k].severity, reportDeprecated |-> ds[k].reportDeprecated,
      reportUnnecessary |-> ds[k].reportUnnecessary, source |-> "tsserver",
      relatedInformation |-> ds[k].relatedInformation,
      message |-> FormatText(FormatDiagnosticIntoMarkdown(ds[k]), ds[k].severity)
                    \o << "\n", "\n" >>,
      filetype |-> "markdown"]]

\* formatDiagnostic(diagnostics): { ...diagnostic, message: `${formatted}\n\n`,
\* filetype: "markdown" } for every diagnostic
FormatDiagnostic(ds) ==
  [k \in 1..Len(ds) |->
     [range |-> ds[k].range, tags |-> ds[k].tags, code |-> ds[k].code,
      severity |-> ds[k].severity, reportDeprecated |-> ds[k].reportDeprecated,
      reportUnnecessary |-> ds[k].reportUnnecessary, source |-> ds[k].source,
      relatedInformation |-> ds[k].relatedInformation,
      message |-> FormatText(FormatDiagnosticIntoMarkdown(ds[k]), ds[k].severity)
                    \o << "\n", "\n" >>,
      filetype |-> "markdown"]]

\* createMarkerData(diagnostics)
CreateMarkerData(diagnostics, flag) ==
  LET ds == [k \in 1..Len(diagnostics) |-> TsDiagnosticToLspDiagnostic(diagnostics[k], flag)] IN
  IF \E k \in 1..Len(ds) : ds[k].threw THEN Thrown
  ELSE Returned(FormatDiagnostic([k \in 1..Len(ds) |-> ds[k].value]))

\* ------------------------------------------------------------------ routing
\* find that keeps the last match
RECURSIVE ArrayFindLast(_, _, _, _)
ArrayFindLast(languages, yes, thrower, first) ==
  IF languages = <<>> THEN Returned(NoLanguage)
  ELSE IF first \/ Head(languages).id = thrower THEN Thrown
  ELSE LET rest == ArrayFindLast(Tail(languages), yes, thrower, FALSE) IN
       IF rest.threw THEN Thrown
       ELSE IF rest.value # NoLanguage THEN rest
       ELSE IF Head(languages).id \in yes THEN Returned(Head(languages))
       ELSE Returned(NoLanguage)

\* languages.find(language => ...): the predicate of `thrower` throws, and so does
\* the argument expression of the first call when `first` is set
RECURSIVE ArrayFind(_, _, _, _)
ArrayFind(languages, yes, thrower, first) ==
  IF languages = <<>> THEN Returned(NoLanguage)
  ELSE IF first \/ Head(languages).id = thrower THEN Thrown
  ELSE IF Head(languages).id \in yes THEN Returned(Head(languages))
  ELSE ArrayFind(Tail(languages), yes, thrower, FALSE)

\* the try block with a fall-back to handlesUri when no handler handles the document
FindLanguageTryFallback(map, lookup) ==
  IF lookup.fail = "getDocument" THEN Thrown
  ELSE IF lookup.tracked
       THEN LET r == ArrayFind(map, lookup.handles, lookup.fail, FALSE) IN
            IF ~r.threw /\ r.value = NoLanguage
            THEN ArrayFind(map, lookup.handlesUri, lookup.fail, lookup.fail = "Uri.parse")
            ELSE r
       ELSE ArrayFind(map, lookup.handlesUri, lookup.fail, lookup.fail = "Uri.parse")

\* the try block of findLanguage(uri)
FindLanguageTry(map, lookup) ==
  IF lookup.fail = "getDocument" THEN Thrown
  ELSE IF lookup.tracked
       THEN ArrayFind(map, lookup.handles, lookup.fail, FALSE)
       ELSE ArrayFind(map, lookup.handlesUri, lookup.fail, lookup.fail = "Uri.parse")

\* findLanguage that falls back to the first language when none matches
FindLanguageOrFirst(map, lookup) ==
  LET r == FindLanguageTry(map, lookup) IN
  IF r.threw THEN [state |-> "fulfilled", value |-> NoLanguage]
  ELSE IF r.value = NoLanguage /\ map # <<>> THEN [state |-> "fulfilled", value |-> map[1]]
  ELSE [state |-> "fulfilled", value |-> r.value]

\* findLanguage without its catch
FindLanguageNoCatch(map, lookup) ==
  LET r == FindLanguageTry(map, lookup) IN
  IF r.threw THEN [state |-> "rejected", value |-> NoLanguage]
  ELSE [state |-> "fulfilled", value |-> r.value]

\* findLanguage(uri): the promise it returns
FindLanguage(map, lookup) ==
  LET r == FindLanguageTry(map, lookup) IN
  IF r.threw THEN [state |-> "fulfilled", value |-> NoLanguage]
  ELSE [state |-> "fulfilled", value |-> r.value]

Kinds == {"syntax"}

Unused == RawDiagnostic(Location(5, 3), Location(5, 10), "unused", "error",
                        Code("number", 6133), TRUE, FALSE, Absent)

Mismatch == RawDiagnostic(Location(1, 1), Location(2, 4), "mismatch", "error",
                          Code("number", 2322), FALSE, FALSE,
                          Some(<< [span |-> Some([file |-> "c.ts", start |-> Location(3, 1),
                                                  end |-> Location(3, 2)]),
                                   message |-> "here"] >>))

Broken == RawDiagnostic(Location(1, 1), Location(1, 2), "broken", "suggestion",
                        NoCode, FALSE, TRUE, Some(<< [span |-> Absent, message |-> "lost"] >>))

\* the diagnostics of a batch
BatchDiagnostics == { <<>>, << Unused, Mismatch >>, << Mismatch, Unused >>, << Unused, Broken >> }

\* the client.onDiagnosticsReceived listener: diagnosticsReceived runs up to its await
DiagnosticsReceived(kind, resource, diagnostics) ==
  /\ NoTimerDue
  /\ ~disposed
  /\ Count("batch") < MaxBatches
  /\ counts' = Bump("batch")
  /\ microtasks' = Append(microtasks,
       [batch |-> Count("batch") + 1, kind |-> kind, resource |-> resource,
        diagnostics |-> diagnostics, registry |-> languagePerId,
        promise |-> FindLanguage(languagePerId, answers[resource])])
  /\ UNCHANGED << turn, answers, formatting, resumed, descriptions, plugins, languagePerId, nextInst, disposedLanguages,
                  reportStyleCheckAsWarnings, config, disposed, timer, pendingTimers,
                  now, delivered, errors, escaped, executed, reInitialized, triggerLog,
                  configFileDiags, changeLog >>

\* a diagnostic of a file, over the shapes of its span and its two tag flags
Flagged(span, unnecessary, deprecated) ==
  RawDiagnostic(span[1], span[2], "flagged", "warning", Code("number", 2322),
                unnecessary, deprecated, Absent)

\* promise jobs run last in, first out
DequeueLast(queue) == [task |-> queue[Len(queue)], rest |-> SubSeq(queue, 1, Len(queue) - 1)]

\* the promise jobs of the awaits run in the order in which the awaits were reached
Dequeue(queue) == [task |-> Head(queue), rest |-> Tail(queue)]

\* the listener without its .catch
CatchRejectionMissing(batch) == [errors |-> errors, escaped |-> TRUE]

\* .catch(e => { console.error(e) }) on the promise of diagnosticsReceived
CatchRejection(batch) == [errors |-> Append(errors, batch), escaped |-> escaped]

\* the rest of diagnosticsReceived after `await this.findLanguage(resource)`, and the
\* .catch of the listener; handlerThrows: language.diagnosticsReceived throws
Resume(handlerThrows) ==
  /\ microtasks # <<>>
  /\ microtasks' = Dequeue(microtasks).rest
  /\ resumed' = Append(resumed, [task |-> Dequeue(microtasks).task, config |-> config])
  /\ LET m == Dequeue(microtasks).task
         language == m.promise.value
         markers == CreateMarkerData(m.diagnostics, reportStyleCheckAsWarnings)
         call == [batch |-> m.batch, language |-> language, kind |-> m.kind,
                  resource |-> m.resource,
                  diagnostics |-> IF markers.threw THEN <<>> ELSE markers.value,
                  threw |-> handlerThrows]
     IN
       IF m.promise.state = "rejected"
       THEN /\ handlerThrows = FALSE
            /\ errors' = CatchRejection(m.batch).errors
            /\ escaped' = CatchRejection(m.batch).escaped
            /\ UNCHANGED delivered
       ELSE IF language = NoLanguage
       THEN /\ handlerThrows = FALSE
            /\ UNCHANGED << delivered, errors, escaped >>
       ELSE IF markers.threw
       THEN /\ handlerThrows = FALSE
            /\ errors' = CatchRejection(m.batch).errors
            /\ escaped' = CatchRejection(m.batch).escaped
            /\ UNCHANGED delivered
       ELSE /\ delivered' = Append(delivered, call)
            /\ errors' = IF handlerThrows THEN CatchRejection(m.batch).errors ELSE errors
            /\ escaped' = IF handlerThrows THEN CatchRejection(m.batch).escaped ELSE escaped
  /\ UNCHANGED << turn, answers, formatting, descriptions, plugins, languagePerId, nextInst, disposedLanguages,
                  reportStyleCheckAsWarnings, config, disposed, timer, pendingTimers,
                  now, executed, reInitialized, triggerLog, configFileDiags,
                  changeLog, counts >>

\* ------------------------------------------------- config-file diagnostics
ConfigDiagnostic(start, end, category, code) ==
  [start |-> start, end |-> end, text |-> "config", category |-> category, code |-> code]

Categories == {"error", "warning", "suggestion", "message", "unknown"}

Codes == { NoCode, Code("number", 0), Code("number", 6133), Code("number", 7030),
           Code("number", 2322), Code("string", 6133) }

Spans == { << Location(5, 3), Location(5, 10) >>, << Absent, Location(1, 1) >>,
           << Location(1, 1), Absent >>, << Absent, Absent >> }

ConfigDiagnostics ==
  { ConfigDiagnostic(sp[1], sp[2], c, k) : sp \in Spans, c \in Categories, k \in Codes }

\* the body of a configFileDiag event
ConfigBodies ==
  {Absent}
    \cup { Some([configFile |-> "tsconfig.json", diagnostics |-> ds]) :
             ds \in {<<>>} \cup { << d >> : d \in ConfigDiagnostics }
                  \cup { << d, e >> : d, e \in { x \in ConfigDiagnostics :
                                                   /\ x.start # Absent /\ x.end # Absent
                                                   /\ x.category \in {"error", "suggestion"}
                                                   /\ x.code \in {NoCode, Code("number", 6133)} } } }

\* the diagnostics.map callback of the onConfigDiagnosticsReceived listener
ConfigDiagnosticToLsp(diag, flag) ==
  [range |-> IF diag.start = Absent \/ diag.end = Absent
             THEN RangeCreate(0, 0, 0, 1)
             ELSE RangeCreate(diag.start[1].line - 1, diag.start[1].offset - 1,
                              diag.end[1].line - 1, diag.end[1].offset - 1),
   message |-> diag.text,
   severity |-> GetDiagnosticSeverity(diag, flag),
   code |-> diag.code]

\* the client.onConfigDiagnosticsReceived listener
ConfigDiagnosticsReceived(body) ==
  /\ NoTimerDue
  /\ ~disposed
  /\ Count("configDiag") < MaxConfigDiags
  /\ counts' = Bump("configDiag")
  /\ IF body = Absent
     THEN UNCHANGED configFileDiags
     ELSE LET diagnostics == body[1].diagnostics IN
          configFileDiags' =
            [uri |-> << "file://", body[1].configFile >>,
             raw |-> diagnostics,
             flag |-> reportStyleCheckAsWarnings,
             diagnostics |-> IF Len(diagnostics) = 0 THEN <<>>
                             ELSE [k \in 1..Len(diagnostics) |->
                                     ConfigDiagnosticToLsp(diagnostics[k],
                                                           reportStyleCheckAsWarnings)]]
  /\ UNCHANGED << turn, answers, formatting, resumed, descriptions, plugins, languagePerId, nextInst, disposedLanguages,
                  reportStyleCheckAsWarnings, config, disposed, timer, pendingTimers,
                  now, microtasks, delivered, errors, escaped, executed, reInitialized,
                  triggerLog, changeLog >>

\* ----------------------------------------------------------- the formatter
\* format() hands the text of formatDiagnosticIntoMarkdown to
\* replaceBackticksExceptCodeBlocks
Format ==
  /\ formatting.replaced = Absent
  /\ formatting' = [formatting EXCEPT
                      !.replaced = Some(ReplaceBackticksExceptCodeBlocks(formatting.markdown))]
  /\ UNCHANGED << descriptions, plugins, languagePerId, nextInst, disposedLanguages,
                  reportStyleCheckAsWarnings, config, disposed, timer, pendingTimers,
                  now, microtasks, delivered, errors, escaped, executed, reInitialized,
                  triggerLog, configFileDiags, turn, changeLog, counts, answers, resumed >>

\* ---------------------------------------------------------- specifications
ProjectChanges == \E f \in {"tsconfig", "package"} : HandleProjectChange(f)

StructuralEventsHappen == \E e \in StructuralEvents : StructuralEvent(e)

ConfigurationChanges == \E a \in BOOLEAN, v \in ConfigValues : ConfigurationChanged(a, v)

Resumes == \E h \in BOOLEAN : Resume(h)

RegistryIds == { x.id : x \in Range(languagePerId) }

\* every operation
Next ==
  \/ ProjectChanges
  \/ TimerFires
  \/ StructuralEventsHappen
  \/ TsServerStarted
  \/ Tick
  \/ OnReady
  \/ Dispose
  \/ ConfigurationChanges
  \/ \E k \in Kinds, r \in Resources, d \in BatchDiagnostics : DiagnosticsReceived(k, r, d)
  \/ Resumes
  \/ \E b \in ConfigBodies : ConfigDiagnosticsReceived(b)
  \/ Format

Spec == Init /\ [][Next]_vars

\* the file watchers and the timer
InitDebounce ==
  Construct({ <<>>, <<"typescript", "javascript">> }, { << Plugin(None, <<"vue">>) >> },
            {None}, "none")

NextDebounce ==
  \/ ProjectChanges
  \/ TimerFires
  \/ StructuralEventsHappen
  \/ Tick
  \/ OnReady
  \/ Dispose

SpecDebounce == InitDebounce /\ [][NextDebounce]_vars

\* the timer under fair scheduling: time passes and a due timeout callback runs; a
\* content change comes only while the clock of the model can still reach its expiry
ProjectChangesInTime == now + DebounceDelay <= MaxTime /\ ProjectChanges

NextDebounceFair ==
  \/ ProjectChangesInTime
  \/ TimerFires
  \/ Tick
  \/ Dispose

SpecDebounceFair ==
  InitDebounce /\ [][NextDebounceFair]_vars /\ WF_vars(Tick) /\ WF_vars(TimerFires)

\* disposal among a pending timer, ready events and suspended batches
InitDispose ==
  Construct({ <<"typescript", "javascript">> },
            { << Plugin(None, <<"vue">>) >>, << Plugin("typescript", <<"svelte">>) >> },
            {None}, "claimed")

NextDispose ==
  \/ (now + DebounceDelay <= MaxTime /\ HandleProjectChange("tsconfig"))
  \/ TimerFires
  \/ Tick
  \/ OnReady
  \/ Dispose
  \/ \E k \in Kinds : DiagnosticsReceived(k, "a.ts", << Unused >>)
  \/ Resume(FALSE)

SpecDispose == InitDispose /\ [][NextDispose]_vars

\* routing: every lookup answer for one resource, one payload
InitRoute ==
  Construct(DescriptionSets,
            { <<>>, << Plugin(None, <<"vue">>) >>, << Plugin("typescript", <<"svelte">>) >> },
            {None}, "all")

NextRoute ==
  \/ \E k \in Kinds : DiagnosticsReceived(k, "a.ts", << Unused >>)
  \/ Resumes
  \/ OnReady
  \/ Dispose

SpecRoute == InitRoute /\ [][NextRoute]_vars

\* delivery: every payload, both resources tracked and handled by the first handler
InitDeliver == Construct({ <<"typescript", "javascript">> }, { <<>> }, ConfigValues, "claimed")

NextDeliver ==
  \/ \E k \in Kinds, r \in Resources, d \in BatchDiagnostics : DiagnosticsReceived(k, r, d)
  \/ Resumes
  \/ ConfigurationChanges
  \/ Dispose

SpecDeliver == InitDeliver /\ [][NextDeliver]_vars

\* the classifier on the config-file diagnostics path
InitClassify == Construct({ <<>> }, { <<>> }, ConfigValues, "none")

NextClassify ==
  \/ \E b \in ConfigBodies : ConfigDiagnosticsReceived(b)
  \/ ConfigurationChanges

SpecClassify == InitClassify /\ [][NextClassify]_vars

\* the batches of the normalization runs: every pair of tag flags on a well-formed
\* span, every span with an endpoint missing, and a two-diagnostic batch whose second
\* span has no start
WellFormed == << Location(5, 3), Location(5, 10) >>

NormalizeBatches ==
  { << Flagged(WellFormed, u, d) >> : u, d \in BOOLEAN }
    \cup { << Flagged(sp, FALSE, FALSE) >> : sp \in Spans }
    \cup { << Flagged(WellFormed, TRUE, FALSE), Flagged(<< Absent, Location(1, 1) >>, FALSE, TRUE) >> }

\* config-file bodies with one diagnostic per span shape
SpanBodies ==
  { Some([configFile |-> "tsconfig.json",
          diagnostics |-> << ConfigDiagnostic(sp[1], sp[2], "error", NoCode) >>]) : sp \in Spans }

\* normalization on both paths: per-file batches and config-file diagnostics
InitNormalize == Construct({ <<"typescript">> }, { <<>> }, {None}, "claimed")

NextNormalize ==
  \/ \E k \in Kinds, d \in NormalizeBatches : DiagnosticsReceived(k, "a.ts", d)
  \/ Resumes
  \/ \E b \in SpanBodies : ConfigDiagnosticsReceived(b)

SpecNormalize == InitNormalize /\ [][NextNormalize]_vars

\* the formatter alone, on every text
InitFormat == ConstructWith({ <<>> }, { <<>> }, {None}, "none", Texts)

NextFormat == Format

SpecFormat == InitFormat /\ [][NextFormat]_vars

\* -------------------------------------------------------------- properties
Last(s) == s[Len(s)]

\* the triggerAllDiagnostics calls made by the debounce timer
TimerCalls == SelectSeq(triggerLog, LAMBDA c : c.origin = "timer")

\* a burst: content-change events each less than DebounceDelay after the previous
\* one; the times of the first and of the last event of every burst
RECURSIVE BurstEnds(_)
BurstEnds(log) ==
  IF Len(log) <= 1 THEN log
  ELSE IF log[2] - log[1] < DebounceDelay THEN BurstEnds(Tail(log))
  ELSE << log[1] >> \o BurstEnds(Tail(log))

RECURSIVE BurstStarts(_, _)
BurstStarts(log, previous) ==
  IF log = <<>> THEN <<>>
  ELSE IF previous >= 0 /\ log[1] - previous < DebounceDelay
       THEN BurstStarts(Tail(log), log[1])
       ELSE << log[1] >> \o BurstStarts(Tail(log), log[1])

\* C1: a burst of content-change events, each less than 1500 ms after the previous
\* one, gets exactly one triggerAllDiagnostics call from the debounce timer, no
\* earlier than 1500 ms after the last event of the burst (and before the next burst
\* starts); at most one debounce timer is pending at any time.
C1_DebounceCoalescing ==
  LET ends == BurstEnds(changeLog)
      starts == BurstStarts(changeLog, -1)
  IN /\ Cardinality(pendingTimers) <= 1
     /\ Len(TimerCalls) + Cardinality(pendingTimers) = Len(ends)
     /\ \A k \in 1..Len(TimerCalls) :
          /\ TimerCalls[k].at >= ends[k] + DebounceDelay
          /\ k < Len(starts) => TimerCalls[k].at <= starts[k + 1]

\* a burst of two events 750 ms apart has had its single timer call, and so has a
\* second burst
C1_Witness ==
  /\ Len(changeLog) = 3
  /\ changeLog[2] - changeLog[1] \in 1..(DebounceDelay - 1)
  /\ changeLog[3] - changeLog[2] >= DebounceDelay
  /\ Len(TimerCalls) = 2

\* C2: every create and every delete event of a watched manifest file (tsconfig or
\* jsconfig create/delete, package.json create/delete) sends 'reloadProjects',
\* re-initializes the diagnostic state and triggers a re-diagnosis for every registered
\* handler in the same turn, whether or not a debounce timer is pending.
C2_StructuralBypass ==
  turn.ev \in StructuralEvents =>
    /\ turn.reload /\ turn.reinit /\ turn.triggered
    /\ executed # <<>> /\ Last(executed) = "reloadProjects"
    /\ triggerLog # <<>>
    /\ Last(triggerLog) = [origin |-> "reload", at |-> turn.at, languages |-> turn.registry]

\* the diagnosticsReceived calls that are suspended or have run to their end
Tasks == Range(microtasks) \cup { resumed[k].task : k \in 1..Len(resumed) }

Finished == { resumed[k].task : k \in 1..Len(resumed) }

\* the handler calls made for batch b
CallsFor(b) == { k \in 1..Len(delivered) : delivered[k].batch = b }

LogsFor(b) == { k \in 1..Len(errors) : errors[k] = b }

\* the predicate a lookup consults, and the registry positions it is true for
Consulted(l) == IF l.tracked THEN l.handles ELSE l.handlesUri

Claimants(t) == { i \in 1..Len(t.registry) : t.registry[i].id \in Consulted(answers[t.resource]) }

\* a call made during the lookup of task t throws: getDocument, or Uri.parse in the
\* first predicate call of an untracked file, or the predicate of a handler that no
\* match precedes
LookupThrows(t) ==
  LET l == answers[t.resource] IN
    \/ l.fail = "getDocument"
    \/ l.fail = "Uri.parse" /\ ~l.tracked /\ t.registry # <<>>
    \/ \E i \in 1..Len(t.registry) :
         /\ t.registry[i].id = l.fail
         /\ \A j \in 1..(i - 1) : j \notin Claimants(t)

\* reading span.file of an absent span: tsDiagnosticToLspDiagnostic throws
NormalizationThrows(t) ==
  \E k \in 1..Len(t.diagnostics) :
    /\ t.diagnostics[k].relatedInformation # Absent
    /\ \E n \in 1..Len(t.diagnostics[k].relatedInformation[1]) :
         t.diagnostics[k].relatedInformation[1][n].span = Absent

\* C3: a batch results in at most one handler call; the receiving handler is the
\* first handler, in the registry's order, whose handles(uri, document) is true when
\* the file is tracked and whose handlesUri(uri) is true when it is untracked.
C3_FirstMatchWins ==
  /\ \A t \in Tasks : Cardinality(CallsFor(t.batch)) <= 1
  /\ \A t \in Finished :
       /\ \A k \in CallsFor(t.batch) :
            /\ Claimants(t) # {}
            /\ delivered[k].language = t.registry[SetMin(Claimants(t))]
       /\ (Claimants(t) # {} /\ ~LookupThrows(t) /\ ~NormalizationThrows(t))
            => CallsFor(t.batch) # {}

\* two handlers answer true, the first of them is second in the registry and got the batch
C3_Witness ==
  \E t \in Finished :
    /\ Len(t.registry) >= 2
    /\ Cardinality(Claimants(t)) >= 2
    /\ SetMin(Claimants(t)) = 2
    /\ CallsFor(t.batch) # {}

\* C8: a batch whose file no registered handler claims (the registry may be empty)
\* is delivered to no handler, no failure is logged or escapes the listener, and the
\* registry, the classifier flag and the debounce timer stay as they were.
C8_Dropped ==
  /\ ~escaped
  /\ \A t \in Finished :
       (Claimants(t) = {} /\ ~LookupThrows(t))
         => CallsFor(t.batch) = {} /\ LogsFor(t.batch) = {}

C8_Frame ==
  (microtasks' # microtasks \/ resumed' # resumed)
    => UNCHANGED << languagePerId, reportStyleCheckAsWarnings, timer, pendingTimers >>

C8_UnclaimedDropped == []C8_Dropped /\ [][C8_Frame]_vars

\* an unclaimed batch was dropped with an empty registry, another with handlers registered
C8_Witness ==
  /\ \E t \in Finished : Claimants(t) = {} /\ ~LookupThrows(t) /\ t.registry = <<>>
  /\ \E t \in Finished : Claimants(t) = {} /\ ~LookupThrows(t) /\ t.registry # <<>>
  /\ delivered = <<>>

\* C9: when the lookup inside findLanguage throws, findLanguage yields no handler,
\* the batch is delivered to no handler and nothing reaches the listener's caller or
\* its .catch.
C9_LookupFailureDropped ==
  /\ ~escaped
  /\ \A t \in Tasks :
       LookupThrows(t) => t.promise = [state |-> "fulfilled", value |-> NoLanguage]
  /\ \A t \in Finished :
       LookupThrows(t) => CallsFor(t.batch) = {} /\ LogsFor(t.batch) = {}

\* the predicate of the second handler threw after the first one answered false
C9_Witness ==
  \E t \in Finished :
    /\ Len(t.registry) >= 2
    /\ answers[t.resource].fail = t.registry[2].id
    /\ LookupThrows(t)

\* the suspended or finished call that batch b started
TaskOf(b) == CHOOSE t \in Tasks : t.batch = b

\* C4: two batches for the same file reach the handler in the order in which the
\* backend emitted them, across the findLanguage suspension; a delivery carries the
\* diagnostics of exactly one batch, in the batch's order and with its length.
C4_BatchOrder ==
  /\ \A i, j \in 1..Len(delivered) :
       (i < j /\ delivered[i].resource = delivered[j].resource)
         => delivered[i].batch < delivered[j].batch
  /\ \A k \in 1..Len(delivered) :
       LET raw == TaskOf(delivered[k].batch).diagnostics
           out == delivered[k].diagnostics
       IN /\ delivered[k].resource = TaskOf(delivered[k].batch).resource
          /\ delivered[k].kind = TaskOf(delivered[k].batch).kind
          /\ Len(out) = Len(raw)
          /\ \A n \in 1..Len(raw) :
               /\ out[n].message[2] = raw[n].text
               /\ out[n].range.start.line = raw[n].start[1].line - 1

\* two batches of one file with different two-diagnostic payloads were both delivered
C4_Witness ==
  \E i, j \in 1..Len(delivered) :
    /\ i < j
    /\ delivered[i].resource = delivered[j].resource
    /\ Len(delivered[i].diagnostics) = 2
    /\ Len(delivered[j].diagnostics) = 2
    /\ delivered[i].diagnostics # delivered[j].diagnostics

\* an error whose numeric code is in the style-check set
StyleError(d) ==
  d.category = "error" /\ d.code.type = "number" /\ d.code.value \in styleCheckDiagnostics

\* the severity of a category without the downgrade
DirectSeverity(category) ==
  CASE category = "error" -> "Error"
    [] category = "warning" -> "Warning"
    [] category = "suggestion" -> "Hint"
    [] OTHER -> "Error"

\* the config-file diagnostics last classified, with what they were made from
Classified ==
  { [raw |-> configFileDiags.raw[k], out |-> configFileDiags.diagnostics[k],
     flag |-> configFileDiags.flag] : k \in 1..Len(configFileDiags.raw) }

\* C5: an error whose numeric code is in the style-check set is classified Warning
\* when reportStyleCheckAsWarnings is true and Error when it is false; no diagnostic
\* of another category, or without a code of the set, is downgraded.
C5_StyleCheckDowngrade ==
  /\ Len(configFileDiags.diagnostics) = Len(configFileDiags.raw)
  /\ \A c \in Classified :
       /\ StyleError(c.raw) => c.out.severity = (IF c.flag THEN "Warning" ELSE "Error")
       /\ (~StyleError(c.raw) /\ c.raw.category # "warning") => c.out.severity # "Warning"

\* with the flag set, an error of the set became a Warning and a suggestion with the
\* same code did not
C5_Witness ==
  /\ configFileDiags.flag
  /\ \E c \in Classified : StyleError(c.raw) /\ c.out.severity = "Warning"
  /\ \E c \in Classified :
       /\ c.raw.category = "suggestion"
       /\ c.raw.code = Code("number", 6133)
       /\ c.out.severity = "Hint"

\* C6: when the downgrade does not apply the category maps directly: error to Error,
\* warning to Warning, suggestion to Hint, anything else to Error; the result is
\* always one of Error, Warning, Hint.
C6_DirectMapping ==
  \A c \in Classified :
    /\ c.out.severity \in {"Error", "Warning", "Hint"}
    /\ ~(c.flag /\ StyleError(c.raw))
         => /\ c.raw.category = "error" => c.out.severity = "Error"
            /\ c.raw.category = "warning" => c.out.severity = "Warning"
            /\ c.raw.category = "suggestion" => c.out.severity = "Hint"
            /\ c.raw.category \notin {"error", "warning", "suggestion"}
                 => c.out.severity = "Error"

\* with the flag set, a 'message' diagnostic with a code of the set was classified Error
C6_Witness ==
  \E c \in Classified :
    /\ c.flag
    /\ c.raw.category = "message"
    /\ c.raw.code = Code("number", 6133)
    /\ c.out.severity = "Error"

\* the value in force for a stored configuration value
InForce(c) == c # "false"

\* C7: once a configuration change that affects 'tsserver' has set the flag to v,
\* every diagnostic classified from then on is classified with v; the change neither
\* re-classifies nor re-delivers what was delivered; a change that does not affect
\* 'tsserver' leaves the flag as it was.
C7_Classified ==
  /\ reportStyleCheckAsWarnings = InForce(config)
  /\ \A k \in 1..Len(resumed) :
       \A c \in CallsFor(resumed[k].task.batch) :
         \A n \in 1..Len(delivered[c].diagnostics) :
           LET raw == resumed[k].task.diagnostics[n] IN
           delivered[c].diagnostics[n].severity =
             (IF InForce(resumed[k].config) /\ StyleError(raw)
              THEN "Warning" ELSE DirectSeverity(raw.category))

C7_Frame ==
  counts'["config"] # counts["config"]
    => /\ delivered' = delivered
       /\ configFileDiags' = configFileDiags
       /\ config' = config => reportStyleCheckAsWarnings' = reportStyleCheckAsWarnings

C7_ConfigTakesEffect == []C7_Classified /\ [][C7_Frame]_vars

\* the same style error was delivered as a Warning, and after a change to false as an Error
C7_Witness ==
  /\ config = "false"
  /\ \E i, j \in 1..Len(delivered) :
       /\ i < j
       /\ delivered[i].diagnostics # <<>>
       /\ delivered[j].diagnostics # <<>>
       /\ delivered[i].diagnostics[1].severity = "Warning"
       /\ delivered[j].diagnostics[1].severity = "Error"
       /\ TaskOf(delivered[i].batch).diagnostics = TaskOf(delivered[j].batch).diagnostics

\* C10: a failure of normalization or of a handler's diagnosticsReceived is caught for
\* its own batch only and logged: every other batch is routed and delivered as if the
\* failure had not happened.
C10_FailureIsolated ==
  /\ ~escaped
  /\ \A t \in Finished :
       t.promise.value # NoLanguage =>
         IF NormalizationThrows(t)
         THEN CallsFor(t.batch) = {} /\ Cardinality(LogsFor(t.batch)) = 1
         ELSE /\ Cardinality(CallsFor(t.batch)) = 1
              /\ \A k \in CallsFor(t.batch) :
                   /\ delivered[k].language = t.promise.value
                   /\ Len(delivered[k].diagnostics) = Len(t.diagnostics)
                   /\ Cardinality(LogsFor(t.batch)) = (IF delivered[k].threw THEN 1 ELSE 0)
  /\ \A k \in 1..Len(errors) : \E t \in Finished : t.batch = errors[k]

\* the first batch failed in normalization and was logged, the second was delivered
C10_Witness ==
  /\ errors = << 1 >>
  /\ \E t \in Finished : t.batch = 1 /\ NormalizationThrows(t)
  /\ \E k \in 1..Len(delivered) : delivered[k].batch = 2 /\ ~delivered[k].threw

\* the range the conversion is to give for a raw diagnostic
ZeroBasedRange(raw) ==
  IF raw.start = Absent \/ raw.end = Absent
  THEN [start |-> [line |-> 0, character |-> 0], end |-> [line |-> 0, character |-> 1]]
  ELSE [start |-> [line |-> raw.start[1].line - 1, character |-> raw.start[1].offset - 1],
        end |-> [line |-> raw.end[1].line - 1, character |-> raw.end[1].offset - 1]]

\* C11: on the per-file path and on the config-file path, a raw diagnostic with start
\* and end present gets the range (start.line-1, start.offset-1)-(end.line-1,
\* end.offset-1), one with start or end absent gets exactly (0,0)-(0,1), and the
\* processing of the diagnostic and of the rest of its batch does not fail.
C11_RangeConversion ==
  /\ \A c \in Classified : c.out.range = ZeroBasedRange(c.raw)
  /\ \A t \in Finished :
       (t.promise.value # NoLanguage /\ ~NormalizationThrows(t))
         => /\ Cardinality(CallsFor(t.batch)) = 1
            /\ \A k \in CallsFor(t.batch) :
                 /\ Len(delivered[k].diagnostics) = Len(t.diagnostics)
                 /\ \A n \in 1..Len(t.diagnostics) :
                      delivered[k].diagnostics[n].range = ZeroBasedRange(t.diagnostics[n])

\* the plugins that get an entry of their own, and the languages of the others
NamedPlugins ==
  { k \in 1..Len(plugins) :
      plugins[k].configNamespace # None /\ Len(plugins[k].languages) # 0 }

MergedLanguages ==
  UNION { Range(plugins[k].languages) : k \in (1..Len(plugins)) \ NamedPlugins }

CapabilitySets == Cardinality(NamedPlugins) + (IF MergedLanguages # {} THEN 1 ELSE 0)

\* C12: a ready event registers one entry per plugin that has a config namespace and
\* a language, keyed by the namespace, and one 'typescript-plugins' entry if and only
\* if the other plugins have a language; every handler registered before is still in
\* the registry, which grows by exactly the number of capability sets, and every added
\* entry has the diagnostic source 'ts-plugin'.
C12_Step ==
  counts'["ready"] # counts["ready"]
    => /\ \A k \in NamedPlugins :
            \E x \in Range(languagePerId') \ Range(languagePerId) :
              x.id = plugins[k].configNamespace
       /\ (\E x \in Range(languagePerId') \ Range(languagePerId) : x.id = "typescript-plugins")
            <=> MergedLanguages # {}
       /\ \A x \in Range(languagePerId) : x \in Range(languagePerId')
       /\ Len(languagePerId') = Len(languagePerId) + CapabilitySets
       /\ \A x \in Range(languagePerId') \ Range(languagePerId) : x.source = "ts-plugin"

C12_PluginRegistration == [][C12_Step]_vars

\* the raw diagnostics that reached a handler, each with what was delivered for it
Normalized ==
  { [raw |-> t.diagnostics[n], out |-> delivered[k].diagnostics[n]] :
      << t, k, n >> \in { x \in Finished \X (1..Len(delivered)) \X (1..2) :
                            /\ delivered[x[2]].batch = x[1].batch
                            /\ x[3] <= Len(x[1].diagnostics)
                            /\ x[3] <= Len(delivered[x[2]].diagnostics) } }

\* C13: the tags of a normalized diagnostic hold Unnecessary iff reportsUnnecessary
\* and Deprecated iff reportsDeprecated, nothing else and nothing twice; with both
\* flags false the tags field is undefined, never an empty collection.
C13_TagDerivation ==
  \A c \in Normalized :
    /\ c.out.tags # Some(<<>>)
    /\ c.out.tags = Absent <=> (~c.raw.reportsUnnecessary /\ ~c.raw.reportsDeprecated)
    /\ c.out.tags # Absent =>
         /\ Range(c.out.tags[1]) \subseteq {"Unnecessary", "Deprecated"}
         /\ Len(c.out.tags[1]) = Cardinality(Range(c.out.tags[1]))
         /\ "Unnecessary" \in Range(c.out.tags[1]) <=> c.raw.reportsUnnecessary
         /\ "Deprecated" \in Range(c.out.tags[1]) <=> c.raw.reportsDeprecated

\* one delivered diagnostic has both tags, another has none
C13_Witness ==
  /\ \E c \in Normalized :
       /\ c.raw.reportsUnnecessary /\ c.raw.reportsDeprecated
       /\ c.out.tags = Some(<< "Unnecessary", "Deprecated" >>)
  /\ \E c \in Normalized :
       /\ ~c.raw.reportsUnnecessary /\ ~c.raw.reportsDeprecated
       /\ c.out.tags = Absent

\* the text as tokens: each fenced block one token, the characters between them one
\* token each
RECURSIVE Tokens(_, _)
Tokens(text, i) ==
  IF i > Len(text) THEN <<>>
  ELSE LET close == IF StartsWith(text, i, Fence) THEN IndexOf(text, Fence, i + 3) ELSE 0 IN
       IF close # 0
       THEN << [fence |-> TRUE, chars |-> SubSeq(text, i, close + 2)] >> \o Tokens(text, close + 3)
       ELSE << [fence |-> FALSE, chars |-> << text[i] >>] >> \o Tokens(text, i + 1)

IsTick(token) == ~token.fence /\ token.chars = << Backtick >>

\* a fenced block verbatim, an angle bracket behind a backslash
Escaped(token) ==
  IF ~token.fence /\ token.chars[1] \in {"<", ">"} THEN << "\\" >> \o token.chars
  ELSE token.chars

RECURSIVE EscapedAll(_)
EscapedAll(tokens) ==
  IF tokens = <<>> THEN <<>> ELSE Escaped(Head(tokens)) \o EscapedAll(Tail(tokens))

\* the text the claim describes: fenced blocks where they were, the span between a
\* backtick and the next one wrapped in the highlight marker, angle brackets escaped
RECURSIVE Recolored(_)
Recolored(tokens) ==
  IF tokens = <<>> THEN <<>>
  ELSE LET ticks == { j \in 2..Len(tokens) : IsTick(tokens[j]) } IN
       IF IsTick(tokens[1]) /\ ticks # {} /\ SetMin(ticks) > 2
       THEN << Highlight >> \o EscapedAll(SubSeq(tokens, 2, SetMin(ticks) - 1)) \o << Reset >>
              \o Recolored(SubSeq(tokens, SetMin(ticks) + 1, Len(tokens)))
       ELSE Escaped(tokens[1]) \o Recolored(Tail(tokens))

\* C14: for every input text, replaceBackticksExceptCodeBlocks returns the text with
\* each triple-backtick fenced block verbatim, at its place and in its order, and
\* outside the fenced blocks every '<' and '>' behind a backslash and every
\* single-backtick span replaced by its content wrapped in the highlight marker.
C14_FencePreservation ==
  formatting.replaced # Absent
    => formatting.replaced[1] = Recolored(Tokens(formatting.markdown, 1))

\* C15: formatDiagnostic gives one diagnostic per input diagnostic, in the same order;
\* the message is the rendered text followed by exactly two newline characters, the
\* filetype is 'markdown', and range, severity, code, tags, source and
\* relatedInformation are those of the input diagnostic.
C15_FormatFrame ==
  \A k \in 1..Len(resumed) :
    \A c \in CallsFor(resumed[k].task.batch) :
      /\ Len(delivered[c].diagnostics) = Len(resumed[k].task.diagnostics)
      /\ \A n \in 1..Len(delivered[c].diagnostics) :
           LET in == TsDiagnosticToLspDiagnostic(resumed[k].task.diagnostics[n],
                                                 InForce(resumed[k].config)).value
               out == delivered[c].diagnostics[n]
           IN /\ out.range = in.range
              /\ out.severity = in.severity
              /\ out.code = in.code
              /\ out.tags = in.tags
              /\ out.source = in.source
              /\ out.relatedInformation = in.relatedInformation
              /\ out.filetype = "markdown"
              /\ out.message = FormatText(FormatDiagnosticIntoMarkdown(in), in.severity)
                                 \o << "\n", "\n" >>

\* a batch of two diagnostics was delivered: one with a tag and none of the related
\* information, the other with related information and no tag, in the batch's order
C15_Witness ==
  \E c \in 1..Len(delivered) :
    /\ Len(delivered[c].diagnostics) = 2
    /\ delivered[c].diagnostics[1].tags = Absent
    /\ delivered[c].diagnostics[1].relatedInformation # Absent
    /\ delivered[c].diagnostics[2].tags # Absent
    /\ delivered[c].diagnostics[2].relatedInformation = Absent
    /\ delivered[c].diagnostics[1].message # delivered[c].diagnostics[2].message

\* one content-change event and one create or delete event have happened
OneChangeOneStructural == counts["change"] = 1 /\ counts["structural"] = 1

\* the create or delete event came while the timer of the content change was pending,
\* and nothing has happened since but the passing of time
StructuralAfterChange ==
  /\ OneChangeOneStructural
  /\ turn.ev \in StructuralEvents
  /\ pendingTimers # {}

\* C16: a create or delete event leaves the debounce timer as it was: a pending timer
\* is still pending with the same expiry and fires later, so a content-change event
\* followed within the quiet window by a create or delete event gives two
\* triggerAllDiagnostics calls in all, one at the event and one at the timer's expiry.
C16_TriggeredAtEvent ==
  StructuralAfterChange
    => /\ Len(triggerLog) = 1
       /\ triggerLog[1].origin = "reload"
       /\ triggerLog[1].at = turn.at
       /\ pendingTimers = { [id |-> timer, due |-> changeLog[1] + DebounceDelay] }

C16_Step ==
  /\ counts'["structural"] # counts["structural"]
       => UNCHANGED << timer, pendingTimers >>
  /\ (StructuralAfterChange /\ Len(triggerLog') # Len(triggerLog))
       => /\ Len(triggerLog') = 2
          /\ triggerLog'[2].origin = "timer"
          /\ triggerLog'[2].at = changeLog[1] + DebounceDelay
          /\ pendingTimers' = {}

C16_ReloadKeepsTimer == []C16_TriggeredAtEvent /\ [][C16_Step]_vars

\* no call of the timer lies after a content change that the next one follows in
\* less than the delay, and up to that next one
C17_Quiet ==
  \A c \in 1..Len(TimerCalls) :
    \A i \in 1..(Len(changeLog) - 1) :
      changeLog[i + 1] - changeLog[i] < DebounceDelay
        => ~(changeLog[i] < TimerCalls[c].at /\ TimerCalls[c].at <= changeLog[i + 1])

\* the n-th content change has happened / the timer has called triggerAllDiagnostics
\* since
Changed(n) == Len(changeLog) >= n

Answered(n) ==
  /\ Len(changeLog) >= n
  /\ \E c \in 1..Len(TimerCalls) : TimerCalls[c].at >= changeLog[n] + DebounceDelay

\* C17: when time passes and due timeouts run, every content-change event is
\* eventually followed by a triggerAllDiagnostics call of the debounce timer, once the
\* content changes have stopped for a full delay; while content changes keep coming
\* less than 1500 ms apart the timer does not fire.
C17_EventuallyTriggered ==
  /\ []C17_Quiet
  /\ \A n \in 1..MaxChanges : Changed(n) ~> Answered(n)

\* three content changes 750 ms apart got their one call of the timer, 1500 ms after
\* the last of them
C17_Witness ==
  /\ Len(changeLog) = 3
  /\ changeLog[2] - changeLog[1] < DebounceDelay
  /\ changeLog[3] - changeLog[2] < DebounceDelay
  /\ Len(TimerCalls) = 1
  /\ TimerCalls[1].at = changeLog[3] + DebounceDelay

\* C18: after dispose() every handler that was ever registered has been disposed, the
\* registry is empty and stays empty, and no handler gets a triggerAllDiagnostics or a
\* diagnosticsReceived call any more, whatever comes after dispose: the expiry of a
\* pending debounce timer, a ready event, the resumption of a suspended batch.
C18_AllDisposed ==
  disposed
    => /\ languagePerId = <<>>
       /\ \A inst \in 1..nextInst : inst \in disposedLanguages

C18_Step ==
  disposed
    => /\ delivered' = delivered
       /\ triggerLog' # triggerLog => Last(triggerLog').languages = <<>>

C18_DisposeIsFinal == []C18_AllDisposed /\ [][C18_Step]_vars

\* the ids of the handlers registered when the lookup of task t ran
IdsAt(t) == { t.registry[i].id : i \in 1..Len(t.registry) }

\* C19: for a tracked file only handles(uri, document) decides: when no registered
\* handler handles the document the batch is dropped, whatever handlesUri(uri) would
\* answer; handlesUri decides only for an untracked file.
C19_TrackedUsesDocument ==
  \A t \in Finished :
    LET l == answers[t.resource] IN
      /\ (l.tracked /\ IdsAt(t) \cap l.handles = {}) => CallsFor(t.batch) = {}
      /\ (~l.tracked /\ IdsAt(t) \cap l.handlesUri = {}) => CallsFor(t.batch) = {}
      /\ \A k \in CallsFor(t.batch) :
           delivered[k].language.id \in (IF l.tracked THEN l.handles ELSE l.handlesUri)

\* a batch of a tracked file that no handler handles was dropped although every
\* handler's handlesUri is true
C19_Witness ==
  \E t \in Finished :
    /\ answers[t.resource].tracked
    /\ answers[t.resource].fail = None
    /\ IdsAt(t) # {}
    /\ IdsAt(t) \cap answers[t.resource].handles = {}
    /\ IdsAt(t) \subseteq answers[t.resource].handlesUri
    /\ CallsFor(t.batch) = {}
====
